---- MODULE Spec2Model ----
(***************************************************************************)
(* scripts/morning_summary.py: one run of main().  The process environment *)
(* and the answers of the three HTTP GETs and of the five SMTP steps are   *)
(* the inputs; the HTTP requests issued, the SMTP steps attempted and the  *)
(* console lines are recorded in the order the code produces them.         *)
(*                                                                         *)
(* Python values: a dict is a function (a record) whose DOMAIN is its key  *)
(* set, a list is a sequence, a str read character by character is a       *)
(* sequence of one-character strings, a str used whole is a TLA+ string,   *)
(* a JSON number is [num |-> n], the str default "N/A" is [str |-> "N/A"]. *)
(***************************************************************************)
EXTENDS Integers, Sequences, FiniteSets, TLC

VARIABLES
    pc,            \* position of the single thread of control
    environ,       \* os.environ: the variables that are set, and their values
    config,        \* main's six configuration locals
    current,       \* get_weather_data's local `current` between its two GETs
    weather_data,  \* main's weather_data
    news_data,     \* main's news_data
    summary,       \* main's summary (the report body)
    sent,          \* what send_email returned
    exc,           \* the exception that left main uncaught
    http,          \* the HTTP GETs issued, in order
    smtp,          \* the SMTP steps attempted, in order, with their outcome
    console        \* the lines printed, in order

vars == <<pc, environ, config, current, weather_data, news_data, summary,
          sent, exc, http, smtp, console>>

-----------------------------------------------------------------------------
(* Bounds of the model.                                                    *)

\* the longest `articles` sequence a news payload carries
MaxArticles == 6
\* the longest forecast `list` a forecast payload carries
MaxForecast == 4

(* Program constants.                                                      *)

WindLimit == 25
ForecastShown == 3
PageSize == 5
HttpTimeout == 10
SmtpPort == 587
BannerWidth == 50

-----------------------------------------------------------------------------
(* Python values.                                                          *)

PyNone == "<None>"
\* a local that is not yet assigned
Unbound == [unbound |-> TRUE]
EmptyDict == <<>>

\* dict.get(key, default)
Get(d, key, default) == IF key \in DOMAIN d THEN d[key] ELSE default

\* truth value of a str or None
Truthy(v) == v # PyNone /\ v # ""

\* truth value of a dict or a list
NonEmpty(d) == DOMAIN d # {}

Num(n) == [num |-> n]
NA == [str |-> "N/A"]
IsNum(v) == "num" \in DOMAIN v

Return(v) == [ret |-> v]
Raise(e) == [raise |-> e]
Raised(r) == "raise" \in DOMAIN r

Min(a, b) == IF a < b THEN a ELSE b

-----------------------------------------------------------------------------
(* str.lower(), str.title() and `sub in s` on character sequences.         *)

LowerCase == <<"a","b","c","d","e","f","g","h","i","j","k","l","m",
               "n","o","p","q","r","s","t","u","v","w","x","y","z">>
UpperCase == <<"A","B","C","D","E","F","G","H","I","J","K","L","M",
               "N","O","P","Q","R","S","T","U","V","W","X","Y","Z">>

LowerSet == {LowerCase[k] : k \in DOMAIN LowerCase}
UpperSet == {UpperCase[k] : k \in DOMAIN UpperCase}

IsLower(c) == c \in LowerSet
IsUpper(c) == c \in UpperSet
IsCased(c) == c \in LowerSet \cup UpperSet

\* the other case of each letter
LowerOf == [c \in UpperSet |-> LowerCase[CHOOSE k \in DOMAIN UpperCase : UpperCase[k] = c]]
UpperOf == [c \in LowerSet |-> UpperCase[CHOOSE k \in DOMAIN LowerCase : LowerCase[k] = c]]

ToLower(c) == Get(LowerOf, c, c)
ToUpper(c) == Get(UpperOf, c, c)

lower(s) == [i \in DOMAIN s |-> ToLower(s[i])]

\* a cased character is upper-cased when it follows an uncased one (or
\* starts the string) and lower-cased otherwise
title(s) == [i \in DOMAIN s |->
               IF i = 1 \/ ~IsCased(s[i - 1]) THEN ToUpper(s[i]) ELSE ToLower(s[i])]

\* sub in s: sub lies in s at some offset
Contains(sub, s) ==
    \E i \in 0..(Len(s) - Len(sub)) : \A k \in 1..Len(sub) : s[i + k] = sub[k]

-----------------------------------------------------------------------------
(* The inputs of a run: the environment and what the services answer.      *)

EnvNames == {"WEATHER_API_KEY", "NEWS_API_KEY", "EMAIL_SENDER",
             "EMAIL_PASSWORD", "EMAIL_RECIPIENT", "LOCATION"}

\* marks a variable the environment does not hold
Unset == "<unset>"

\* a variable is unset, set to the empty string, or set to a value
EnvChoices ==
    [WEATHER_API_KEY |-> {Unset, "wkey"},
     NEWS_API_KEY    |-> {"", "nkey"},
     EMAIL_SENDER    |-> {Unset, "me@example.com"},
     EMAIL_PASSWORD  |-> {"", "app-password"},
     EMAIL_RECIPIENT |-> {Unset, "you@example.com"},
     LOCATION        |-> {Unset, "Boston"}]

\* the environments: a choice per name, the unset names left out
Environments ==
    { [n \in {m \in EnvNames : c[m] # Unset} |-> c[n]] :
        c \in { f \in [EnvNames -> UNION {EnvChoices[n] : n \in EnvNames}] :
                  \A n \in EnvNames : f[n] \in EnvChoices[n] } }

\* condition descriptions the weather service may report
Descriptions ==
    { <<"l","i","g","h","t"," ","r","a","i","n">>,
      <<"S","n","o","w">>,
      <<"F","O","G">>,
      <<"m","i","s","t">>,
      <<"c","l","e","a","r"," ","s","k","y">>,
      <<"f","o","g"," ","a","n","d"," ","R","a","i","n">> }

WindSpeeds == {WindLimit - 15, WindLimit, WindLimit + 1}

\* the `weather` key of a current-conditions payload: absent, an empty list,
\* one entry without a description, one entry with a description
WeatherOpts ==
    {EmptyDict, [weather |-> <<>>], [weather |-> <<EmptyDict>>]}
    \cup { [weather |-> <<[description |-> d]>>] : d \in Descriptions }

\* the `wind` key of a current-conditions payload: absent, or with a speed
WindOpts == {EmptyDict} \cup { [wind |-> [speed |-> Num(w)]] : w \in WindSpeeds }

CurrentBase ==
    [name |-> "Boston",
     main |-> [temp |-> Num(70), feels_like |-> Num(68), humidity |-> Num(40)]]

\* what a successful current-conditions GET may decode to
CurrentPayloads ==
    {EmptyDict} \cup { CurrentBase @@ w @@ s : w \in WeatherOpts, s \in WindOpts }

\* n forecast entries at 3-hour intervals
ForecastList(n) ==
    [i \in 1..n |->
        [dt      |-> 10800 * i,
         main    |-> [temp |-> Num(60 + i)],
         weather |-> <<[description |-> <<"c","l","o","u","d","s">>]>>]]

\* what a successful forecast GET may decode to
ForecastPayloads ==
    {EmptyDict} \cup { [list |-> ForecastList(n)] : n \in {1, MaxForecast} }

ArticlePool ==
    << [title |-> "Senate vote", source |-> [name |-> "AP"],
        description |-> "The vote passed", url |-> "https://ap.example/1"],
       [title |-> "Budget talks"],
       [title |-> "Court ruling", source |-> EmptyDict, url |-> ""] >>

\* n articles, cycling through the pool
Articles(n) == [i \in 1..n |-> ArticlePool[((i - 1) % Len(ArticlePool)) + 1]]

\* what a successful headlines GET may decode to: no `articles` key, or an
\* `articles` sequence of 0..MaxArticles entries
NewsPayloads ==
    {[status |-> "ok"]}
    \cup { [status |-> "ok", articles |-> Articles(n)] : n \in 0..MaxArticles }

\* requests.exceptions.RequestException instances a GET may end in
RequestExceptions == {"ConnectionError", "HTTPError"}

-----------------------------------------------------------------------------
(* The two formatters.                                                     *)

WetMsg == "Wet/slippery conditions expected. Drive carefully!"
FogMsg == "Reduced visibility. Use caution while driving!"
WindMsg == "High winds. Be careful with high-profile vehicles!"
NormalMsg == "Normal driving conditions expected."

\* wind_speed > 25: a str against an int is a TypeError
GreaterThan(v, n) == IF IsNum(v) THEN Return(v.num > n) ELSE Raise("TypeError")

\* RoadAdvisory with the wind test moved to the head of the chain
RoadAdvisory_WindFirst(description, wind_speed) ==
    LET cmp == GreaterThan(wind_speed, WindLimit) IN
    IF Raised(cmp) THEN cmp
    ELSE IF cmp.ret THEN Return(<<WindMsg>>)
    ELSE IF Contains(<<"r","a","i","n">>, lower(description))
            \/ Contains(<<"s","n","o","w">>, lower(description))
    THEN Return(<<WetMsg>>)
    ELSE IF Contains(<<"f","o","g">>, lower(description))
            \/ Contains(<<"m","i","s","t">>, lower(description))
    THEN Return(<<FogMsg>>)
    ELSE Return(<<NormalMsg>>)

\* the lines the if/elif/else chain adds below the ROAD CONDITIONS header
RoadAdvisory(description, wind_speed) ==
    IF Contains(<<"r","a","i","n">>, lower(description))
       \/ Contains(<<"s","n","o","w">>, lower(description))
    THEN Return(<<WetMsg>>)
    ELSE IF Contains(<<"f","o","g">>, lower(description))
            \/ Contains(<<"m","i","s","t">>, lower(description))
    THEN Return(<<FogMsg>>)
    ELSE LET cmp == GreaterThan(wind_speed, WindLimit) IN
         IF Raised(cmp) THEN cmp
         ELSE IF cmp.ret THEN Return(<<WindMsg>>)
         ELSE Return(<<NormalMsg>>)

\* datetime.fromtimestamp(dt).strftime("%I:%M %p"), local time being UTC
TimeOfDay(dt) ==
    LET h == (dt % 86400) \div 3600
        m == (dt % 3600) \div 60
    IN  [I |-> IF h % 12 = 0 THEN 12 ELSE h % 12,
         M |-> m,
         p |-> IF h < 12 THEN "AM" ELSE "PM"]

\* the TODAY'S FORECAST lines
ForecastLines(weather_data_) ==
    LET forecast == Get(weather_data_, "forecast", EmptyDict) IN
    IF NonEmpty(forecast) /\ "list" \in DOMAIN forecast
    THEN LET today_forecasts ==
                 SubSeq(forecast.list, 1, Min(ForecastShown, Len(forecast.list)))
         IN  [i \in DOMAIN today_forecasts |->
                [time |-> TimeOfDay(today_forecasts[i].dt),
                 temp |-> today_forecasts[i].main.temp,
                 desc |-> title(today_forecasts[i].weather[1].description)]]
    ELSE <<>>

format_weather_summary(weather_data_) ==
    IF Truthy(Get(weather_data_, "error", PyNone))
    THEN Return([kind |-> "error", error |-> weather_data_.error])
    ELSE LET current_ == Get(weather_data_, "current", EmptyDict) IN
    IF ~NonEmpty(current_)
    THEN Return([kind |-> "nodata"])
    ELSE LET weather == Get(current_, "weather", <<EmptyDict>>) IN
    IF Len(weather) = 0
    THEN Raise("IndexError")
    ELSE LET temp == Get(Get(current_, "main", EmptyDict), "temp", NA)
             feels_like == Get(Get(current_, "main", EmptyDict), "feels_like", NA)
             description == title(Get(weather[1], "description", <<"N","/","A">>))
             humidity == Get(Get(current_, "main", EmptyDict), "humidity", NA)
             wind_speed == Get(Get(current_, "wind", EmptyDict), "speed", NA)
             road == RoadAdvisory(description, wind_speed)
         IN  IF Raised(road) THEN road
             ELSE Return([kind        |-> "report",
                          location    |-> Get(current_, "name", "Unknown"),
                          temp        |-> temp,
                          feels_like  |-> feels_like,
                          description |-> description,
                          humidity    |-> humidity,
                          wind_speed  |-> wind_speed,
                          road        |-> road.ret,
                          forecast    |-> ForecastLines(weather_data_)])

\* the block one article contributes, numbered i
ArticleBlock(i, article) ==
    LET url == Get(article, "url", "") IN
    [number      |-> i,
     title       |-> Get(article, "title", "No title"),
     source      |-> Get(Get(article, "source", EmptyDict), "name", "Unknown source"),
     description |-> Get(article, "description", "No description available"),
     readmore    |-> IF Truthy(url) THEN <<url>> ELSE <<>>]

\* NewsEntries numbering from 0, as enumerate(articles) would
NewsEntries_FromZero(articles) ==
    [i \in DOMAIN articles |-> ArticleBlock(i - 1, articles[i])]

\* the numbered blocks, one per article, in enumerate(articles, 1) order
NewsEntries(articles) == [i \in DOMAIN articles |-> ArticleBlock(i, articles[i])]

format_news_summary(news_data_) ==
    IF Truthy(Get(news_data_, "error", PyNone))
    THEN Return([kind |-> "error", error |-> news_data_.error])
    ELSE LET articles == Get(news_data_, "articles", <<>>) IN
    IF ~NonEmpty(articles)
    THEN Return([kind |-> "nonews"])
    ELSE Return([kind |-> "highlights", entries |-> NewsEntries(articles)])

-----------------------------------------------------------------------------
(* The state after the interpreter has loaded the script.                  *)

Init ==
    /\ pc = "start"
    /\ environ \in Environments
    /\ config = Unbound
    /\ current = Unbound
    /\ weather_data = Unbound
    /\ news_data = Unbound
    /\ summary = Unbound
    /\ sent = "unset"
    /\ exc = PyNone
    /\ http = <<>>
    /\ smtp = <<>>
    /\ console = <<>>

\* os.getenv(name, default)
getenv(name, default) == Get(environ, name, default)

\* print(...)
Line(text) == [text |-> text]
LineWith(text, arg) == [text |-> text, arg |-> arg]
Body(body) == [body |-> body]
IsBody(l) == "body" \in DOMAIN l

-----------------------------------------------------------------------------
(* main, up to the call of get_weather_data.                               *)

MainStart ==
    /\ pc = "start"
    /\ LET location == getenv("LOCATION", "New York")
           email_recipient == getenv("EMAIL_RECIPIENT", "")
       IN  /\ config' = [weather_api_key |-> getenv("WEATHER_API_KEY", ""),
                         news_api_key    |-> getenv("NEWS_API_KEY", ""),
                         email_sender    |-> getenv("EMAIL_SENDER", ""),
                         email_password  |-> getenv("EMAIL_PASSWORD", ""),
                         email_recipient |-> email_recipient,
                         location        |-> location]
           /\ console' = console \o
                  << Line("Starting Daily Morning Summary Generation..."),
                     LineWith("=", BannerWidth),
                     LineWith("Location:", location),
                     LineWith("Recipient:",
                              IF Truthy(email_recipient) THEN email_recipient
                              ELSE "Not configured - will print to console"),
                     Line("Fetching weather data...") >>
    /\ pc' = "get_weather_data"
    /\ UNCHANGED <<environ, current, weather_data, news_data, summary, sent,
                   exc, http, smtp>>

-----------------------------------------------------------------------------
(* get_weather_data(location, weather_api_key); main goes on to print      *)
(* "Fetching political news..." and to call get_news_data.                 *)

NoWeatherKeyMsg ==
    "No Weather API key provided. Sign up at https://openweathermap.org/api"
\* f"Weather API error: {str(e)}"
WeatherApiError(e) ==
    CASE e = "ConnectionError" -> "Weather API error: ConnectionError"
      [] e = "HTTPError"       -> "Weather API error: HTTPError"

WeatherRequest(endpoint, location, api_key) ==
    [url |-> endpoint, q |-> location, appid |-> api_key, units |-> "imperial",
     timeout |-> HttpTimeout]

\* requests.get(...) issued, and whether it, raise_for_status and json went through
Issued(request, ok) == [request |-> request, ok |-> ok]

\* get_weather_data returns result to main
WeatherReturns(result) ==
    /\ weather_data' = result
    /\ console' = Append(console, Line("Fetching political news..."))
    /\ pc' = "get_news_data"

\* WeatherNoKey without the early return coming first: the GET goes out
\* with the empty key before the error is returned
WeatherNoKey_RequestFirst ==
    /\ pc = "get_weather_data"
    /\ ~Truthy(config.weather_api_key)
    /\ http' = Append(http, Issued(WeatherRequest("weather", config.location,
                                                  config.weather_api_key), FALSE))
    /\ WeatherReturns([error |-> NoWeatherKeyMsg])
    /\ UNCHANGED <<environ, config, current, news_data, summary, sent, exc,
                   smtp>>

\* the key is empty: the early return
WeatherNoKey ==
    /\ pc = "get_weather_data"
    /\ ~Truthy(config.weather_api_key)
    /\ WeatherReturns([error |-> NoWeatherKeyMsg])
    /\ UNCHANGED <<environ, config, current, news_data, summary, sent, exc,
                   http, smtp>>

\* the current-conditions GET, raise_for_status and json
WeatherGetCurrent ==
    /\ pc = "get_weather_data"
    /\ Truthy(config.weather_api_key)
    /\ LET request == WeatherRequest("weather", config.location,
                                      config.weather_api_key)
       IN  \/ \E e \in RequestExceptions :
                /\ http' = Append(http, Issued(request, FALSE))
                /\ WeatherReturns([error |-> WeatherApiError(e)])
                /\ UNCHANGED current
           \/ \E payload \in CurrentPayloads :
                /\ http' = Append(http, Issued(request, TRUE))
                /\ current' = payload
                /\ pc' = "get_forecast"
                /\ UNCHANGED <<weather_data, console>>
    /\ UNCHANGED <<environ, config, news_data, summary, sent, exc, smtp>>

\* WeatherGetForecast keeping `current` in the result when the forecast
\* GET fails
WeatherGetForecast_KeepsCurrent ==
    /\ pc = "get_forecast"
    /\ LET request == WeatherRequest("forecast", config.location,
                                      config.weather_api_key)
       IN  \/ \E e \in RequestExceptions :
                /\ http' = Append(http, Issued(request, FALSE))
                /\ WeatherReturns([current |-> current,
                                   error |-> WeatherApiError(e)])
           \/ \E payload \in ForecastPayloads :
                /\ http' = Append(http, Issued(request, TRUE))
                /\ WeatherReturns([current |-> current, forecast |-> payload,
                                   error |-> PyNone])
    /\ UNCHANGED <<environ, config, current, news_data, summary, sent, exc,
                   smtp>>

\* the forecast GET, raise_for_status and json, and the return
WeatherGetForecast ==
    /\ pc = "get_forecast"
    /\ LET request == WeatherRequest("forecast", config.location,
                                      config.weather_api_key)
       IN  \/ \E e \in RequestExceptions :
                /\ http' = Append(http, Issued(request, FALSE))
                /\ WeatherReturns([error |-> WeatherApiError(e)])
           \/ \E payload \in ForecastPayloads :
                /\ http' = Append(http, Issued(request, TRUE))
                /\ WeatherReturns([current |-> current, forecast |-> payload,
                                   error |-> PyNone])
    /\ UNCHANGED <<environ, config, current, news_data, summary, sent, exc,
                   smtp>>

-----------------------------------------------------------------------------
(* get_news_data(news_api_key).                                            *)

NoNewsKeyMsg == "No News API key provided. Sign up at https://newsapi.org/"
\* f"News API error: {str(e)}"
NewsApiError(e) ==
    CASE e = "ConnectionError" -> "News API error: ConnectionError"
      [] e = "HTTPError"       -> "News API error: HTTPError"

NewsRequest(api_key) ==
    [url |-> "top-headlines", apiKey |-> api_key, country |-> "us",
     category |-> "politics", pageSize |-> PageSize, timeout |-> HttpTimeout]

\* the key is empty: the early return
NewsNoKey ==
    /\ pc = "get_news_data"
    /\ ~Truthy(config.news_api_key)
    /\ news_data' = [error |-> NoNewsKeyMsg]
    /\ pc' = "summary"
    /\ UNCHANGED <<environ, config, current, weather_data, summary, sent, exc,
                   http, smtp, console>>

\* the headlines GET, raise_for_status and json, and the return
NewsGet ==
    /\ pc = "get_news_data"
    /\ Truthy(config.news_api_key)
    /\ \/ \E e \in RequestExceptions :
            /\ http' = Append(http, Issued(NewsRequest(config.news_api_key), FALSE))
            /\ news_data' = [error |-> NewsApiError(e)]
       \/ \E payload \in NewsPayloads :
            /\ http' = Append(http, Issued(NewsRequest(config.news_api_key), TRUE))
            /\ news_data' = payload
    /\ pc' = "summary"
    /\ UNCHANGED <<environ, config, current, weather_data, summary, sent, exc,
                   smtp, console>>

-----------------------------------------------------------------------------
(* main: the report is assembled, the subject built, send_email called.    *)

Today == "%A, %B %d, %Y"

\* the f-string of the report: the weather section is formatted first
Report(weather_section, news_section) ==
    [banner  |-> BannerWidth,
     title   |-> "DAILY MORNING SUMMARY",
     today   |-> Today,
     weather |-> weather_section,
     news    |-> news_section,
     signoff |-> "Have a great day!"]

BuildSummary ==
    /\ pc = "summary"
    /\ LET w == format_weather_summary(weather_data)
           n == format_news_summary(news_data)
       IN  IF Raised(w)
           THEN /\ exc' = w.raise
                /\ pc' = "raised"
                /\ UNCHANGED <<summary, console>>
           ELSE /\ summary' = Report(w.ret, n.ret)
                /\ console' = Append(console, Line("Sending email..."))
                /\ pc' = "send_email"
                /\ UNCHANGED exc
    /\ UNCHANGED <<environ, config, current, weather_data, news_data, sent,
                   http, smtp>>

-----------------------------------------------------------------------------
(* send_email(subject, summary, email_sender, email_password,              *)
(*            email_recipient).                                            *)

Subject == <<"Daily Morning Summary - ", Today>>

\* AllConfigured with any() in place of all()
AllConfigured_Any(sender, password, recipient) ==
    Truthy(sender) \/ Truthy(password) \/ Truthy(recipient)

\* all([sender, password, recipient])
AllConfigured(sender, password, recipient) ==
    Truthy(sender) /\ Truthy(password) /\ Truthy(recipient)

\* the MIMEMultipart message with the body attached as text/plain
Message(subject, body, sender, recipient) ==
    [From |-> sender, To |-> recipient, Subject |-> subject,
     parts |-> <<[subtype |-> "plain", text |-> body]>>]

\* the credentials are not all there: print the body, return False
SendNoCredentials ==
    /\ pc = "send_email"
    /\ ~AllConfigured(config.email_sender, config.email_password,
                      config.email_recipient)
    /\ console' = console \o
           << Line("Email credentials not configured. Printing summary instead:"),
              Body(summary) >>
    /\ sent' = "False"
    /\ pc' = "returned"
    /\ UNCHANGED <<environ, config, current, weather_data, news_data, summary,
                   exc, http, smtp>>

\* SendFailed as a handler that prints the error and raises again
SendFailed_Reraises(e) ==
    /\ console' = Append(console, LineWith("Failed to send email:", e))
    /\ sent' = sent
    /\ pc' = "raised"

\* SendFailed without the print of the body
SendFailed_NoBody(e) ==
    /\ console' = console \o
           << LineWith("Failed to send email:", e),
              Line("Summary that would have been sent:") >>
    /\ sent' = "False"
    /\ pc' = "returned"

\* the except clause: print the error and the body, return False
SendFailed(e) ==
    /\ console' = console \o
           << LineWith("Failed to send email:", e),
              Line("Summary that would have been sent:"),
              Body(summary) >>
    /\ sent' = "False"
    /\ pc' = "returned"

\* smtplib.SMTP('smtp.gmail.com', 587)
SmtpConnect ==
    /\ pc = "send_email"
    /\ AllConfigured(config.email_sender, config.email_password,
                     config.email_recipient)
    /\ \E ok \in BOOLEAN :
         /\ smtp' = Append(smtp, [step |-> "connect", host |-> "smtp.gmail.com",
                                  port |-> SmtpPort, ok |-> ok])
         /\ IF ok THEN pc' = "starttls" /\ UNCHANGED <<console, sent>>
                  ELSE SendFailed("ConnectionRefusedError")
    /\ UNCHANGED <<environ, config, current, weather_data, news_data, summary,
                   exc, http>>

\* server.starttls()
SmtpStarttls ==
    /\ pc = "starttls"
    /\ \E ok \in BOOLEAN :
         /\ smtp' = Append(smtp, [step |-> "starttls", ok |-> ok])
         /\ IF ok THEN pc' = "login" /\ UNCHANGED <<console, sent>>
                  ELSE SendFailed("SMTPNotSupportedError")
    /\ UNCHANGED <<environ, config, current, weather_data, news_data, summary,
                   exc, http>>

\* SmtpLogin with login called ahead of starttls
SmtpLogin_BeforeStarttls ==
    /\ pc \in {"starttls", "login"}
    /\ \E ok \in BOOLEAN :
         /\ smtp' = Append(smtp, [step |-> "login", user |-> config.email_sender,
                                  password |-> config.email_password, ok |-> ok])
         /\ IF ok THEN pc' = "send_message" /\ UNCHANGED <<console, sent>>
                  ELSE SendFailed("SMTPAuthenticationError")
    /\ UNCHANGED <<environ, config, current, weather_data, news_data, summary,
                   exc, http>>

\* server.login(sender, password)
SmtpLogin ==
    /\ pc = "login"
    /\ \E ok \in BOOLEAN :
         /\ smtp' = Append(smtp, [step |-> "login", user |-> config.email_sender,
                                  password |-> config.email_password, ok |-> ok])
         /\ IF ok THEN pc' = "send_message" /\ UNCHANGED <<console, sent>>
                  ELSE SendFailed("SMTPAuthenticationError")
    /\ UNCHANGED <<environ, config, current, weather_data, news_data, summary,
                   exc, http>>

\* server.send_message(msg)
SmtpSendMessage ==
    /\ pc = "send_message"
    /\ \E ok \in BOOLEAN :
         /\ smtp' = Append(smtp,
                [step |-> "send_message",
                 msg  |-> Message(Subject, summary, config.email_sender,
                                  config.email_recipient),
                 ok   |-> ok])
         /\ IF ok THEN pc' = "quit" /\ UNCHANGED <<console, sent>>
                  ELSE SendFailed("SMTPRecipientsRefused")
    /\ UNCHANGED <<environ, config, current, weather_data, news_data, summary,
                   exc, http>>

\* server.quit(), then the success line and return True
SmtpQuit ==
    /\ pc = "quit"
    /\ \E ok \in BOOLEAN :
         /\ smtp' = Append(smtp, [step |-> "quit", ok |-> ok])
         /\ IF ok
            THEN /\ console' = Append(console,
                       LineWith("Email sent successfully to", config.email_recipient))
                 /\ sent' = "True"
                 /\ pc' = "returned"
            ELSE SendFailed("SMTPServerDisconnected")
    /\ UNCHANGED <<environ, config, current, weather_data, news_data, summary,
                   exc, http>>

-----------------------------------------------------------------------------
(* main, after send_email returned.                                        *)

MainFinish ==
    /\ pc = "returned"
    /\ console' = Append(console, Line("Morning summary process completed!"))
    /\ pc' = "done"
    /\ UNCHANGED <<environ, config, current, weather_data, news_data, summary,
                   sent, exc, http, smtp>>

Next ==
    \/ MainStart
    \/ WeatherNoKey
    \/ WeatherGetCurrent
    \/ WeatherGetForecast
    \/ NewsNoKey
    \/ NewsGet
    \/ BuildSummary
    \/ SendNoCredentials
    \/ SmtpConnect
    \/ SmtpStarttls
    \/ SmtpLogin
    \/ SmtpSendMessage
    \/ SmtpQuit
    \/ MainFinish

Spec == Init /\ [][Next]_vars

-----------------------------------------------------------------------------
(* What the claims speak of.                                               *)

\* main has its configuration
Configured == config # Unbound

\* get_weather_data, get_news_data have returned
WeatherFetched == weather_data # Unbound
NewsFetched == news_data # Unbound

\* main is past the f-string that calls the two formatters
Formatted == pc \in {"raised", "send_email", "starttls", "login",
                     "send_message", "quit", "returned", "done"}

\* send_email has returned
SendReturned == pc \in {"returned", "done"}

\* the GETs issued to an endpoint
RequestsTo(endpoint) == {i \in DOMAIN http : http[i].request.url = endpoint}

\* how often the report body was printed
BodyPrints == {i \in DOMAIN console : IsBody(console[i])}

\* the lines of the console with the given text
LinesOf(text) == {i \in DOMAIN console : Get(console[i], "text", "") = text}

-----------------------------------------------------------------------------
(* C1: a fetcher called with an empty API key returns an error result      *)
(* whose message names the missing key, and issues no HTTP request.        *)

C1_EmptyKeyNoRequest ==
    /\ (Configured /\ ~Truthy(config.weather_api_key)) =>
          /\ RequestsTo("weather") = {} /\ RequestsTo("forecast") = {}
          /\ WeatherFetched =>
                /\ DOMAIN weather_data = {"error"}
                /\ weather_data.error = NoWeatherKeyMsg
                /\ Truthy(weather_data.error)
    /\ (Configured /\ ~Truthy(config.news_api_key)) =>
          /\ RequestsTo("top-headlines") = {}
          /\ NewsFetched =>
                /\ DOMAIN news_data = {"error"}
                /\ news_data.error = NoNewsKeyMsg
                /\ Truthy(news_data.error)

\* both fetchers have returned from a call with an empty key
C1_Witness ==
    /\ WeatherFetched /\ NewsFetched
    /\ config.weather_api_key = "" /\ config.news_api_key = ""
    /\ weather_data.error = NoWeatherKeyMsg /\ news_data.error = NoNewsKeyMsg
    /\ http = <<>>

-----------------------------------------------------------------------------
(* C2: for a non-error weather result with a non-empty current snapshot, a *)
(* condition description and a numeric wind speed, the formatter emits     *)
(* exactly one road advisory: wet/slippery if the description contains     *)
(* rain or snow in any letter case, else reduced visibility if it contains *)
(* fog or mist, else high wind if the speed is above 25, else normal.      *)

\* the weather result is a success with a non-empty current snapshot
HasCurrent ==
    /\ WeatherFetched
    /\ ~Truthy(Get(weather_data, "error", PyNone))
    /\ NonEmpty(Get(weather_data, "current", EmptyDict))

\* the snapshot's weather list, and whether it has an entry to describe it
WeatherList == Get(weather_data.current, "weather", <<EmptyDict>>)
HasWeatherEntry == Len(WeatherList) > 0
RawDescription == Get(WeatherList[1], "description", <<"N","/","A">>)

\* the snapshot's wind speed
WindSpeed == Get(Get(weather_data.current, "wind", EmptyDict), "speed", NA)

\* some spelling of word, in any letter case, occurs in s
Mentions(s, word) ==
    \E i \in 0..(Len(s) - Len(word)) :
        \A k \in 1..Len(word) : ToLower(s[i + k]) = word[k]

ExpectedAdvisory ==
    IF Mentions(RawDescription, <<"r","a","i","n">>)
       \/ Mentions(RawDescription, <<"s","n","o","w">>) THEN WetMsg
    ELSE IF Mentions(RawDescription, <<"f","o","g">>)
            \/ Mentions(RawDescription, <<"m","i","s","t">>) THEN FogMsg
    ELSE IF WindSpeed.num > WindLimit THEN WindMsg
    ELSE NormalMsg

C2_AdvisoryPrecedence ==
    (Formatted /\ HasCurrent /\ HasWeatherEntry /\ IsNum(WindSpeed)) =>
        /\ pc # "raised"
        /\ summary.weather.kind = "report"
        /\ summary.weather.road = <<ExpectedAdvisory>>

\* rain in upper case, fog and a wind above the limit at once: rain wins
C2_Witness ==
    /\ Formatted /\ HasCurrent /\ HasWeatherEntry
    /\ RawDescription = <<"f","o","g"," ","a","n","d"," ","R","a","i","n">>
    /\ WindSpeed = Num(WindLimit + 1)
    /\ summary.weather.road = <<WetMsg>>

-----------------------------------------------------------------------------
(* C3 as stated: for a non-error news result the formatter renders         *)
(* min(5, len(articles)) entries numbered 1..N in input order, and the     *)
(* no-political-news block when articles is empty or missing.              *)

\* the news result is a success
NewsOk == NewsFetched /\ ~Truthy(Get(news_data, "error", PyNone))
ArticlesIn == Get(news_data, "articles", <<>>)

\* entry i is numbered i and is the block of the i-th article
InInputOrder(entries) ==
    \A i \in DOMAIN entries :
        /\ entries[i].number = i
        /\ entries[i].title = Get(ArticlesIn[i], "title", "No title")
        /\ entries[i] = ArticleBlock(i, ArticlesIn[i])

C3_AtMostFiveEntries ==
    (summary # Unbound /\ NewsOk) =>
        IF Len(ArticlesIn) = 0
        THEN summary.news = [kind |-> "nonews"]
        ELSE /\ summary.news.kind = "highlights"
             /\ Len(summary.news.entries) = Min(PageSize, Len(ArticlesIn))
             /\ InInputOrder(summary.news.entries)

(* C3 amended: the formatter renders one entry per article, len(articles)  *)
(* of them, numbered 1..N in input order; the no-political-news block when *)
(* articles is empty or missing.                                           *)

C3_OneEntryPerArticle ==
    (summary # Unbound /\ NewsOk) =>
        IF Len(ArticlesIn) = 0
        THEN summary.news = [kind |-> "nonews"]
        ELSE /\ summary.news.kind = "highlights"
             /\ Len(summary.news.entries) = Len(ArticlesIn)
             /\ InInputOrder(summary.news.entries)

\* a payload of more than five articles has been formatted
C3_Witness ==
    /\ summary # Unbound /\ NewsOk
    /\ Len(ArticlesIn) > PageSize
    /\ summary.news.kind = "highlights"
    /\ Len(summary.news.entries) = Len(ArticlesIn)

-----------------------------------------------------------------------------
(* C4: send_email with sender, password or recipient empty opens no SMTP   *)
(* connection, attempts no SMTP step, prints the unmodified body and       *)
(* returns False.                                                          *)

C4_MissingCredentialsFallBack ==
    (Configured /\ ~(/\ Truthy(config.email_sender)
                     /\ Truthy(config.email_password)
                     /\ Truthy(config.email_recipient))) =>
        /\ smtp = <<>>
        /\ sent # "True"
        /\ SendReturned =>
              /\ sent = "False"
              /\ \E i \in DOMAIN console : console[i] = Body(summary)

\* only the recipient is missing, and send_email has returned
C4_Witness ==
    /\ SendReturned
    /\ Truthy(config.email_sender) /\ Truthy(config.email_password)
    /\ ~Truthy(config.email_recipient)
    /\ sent = "False"
    /\ smtp = <<>>

-----------------------------------------------------------------------------
(* C5: whatever the six configuration values, and whether each GET and     *)
(* each SMTP step succeeds or fails, a GET that succeeds returning a fully *)
(* populated payload, main raises nothing: it never stops short of its     *)
(* last line, and when it is done both fetchers were called, the report    *)
(* was built and send_email was called once.  With both API keys empty and *)
(* no email configured the report printed holds both missing-key messages. *)

\* the current-conditions payload has a name, the main figures, a condition
\* description and a wind speed
FullyPopulated(payload) ==
    /\ {"name", "main", "weather", "wind"} \subseteq DOMAIN payload
    /\ Len(payload.weather) > 0
    /\ "description" \in DOMAIN payload.weather[1]
    /\ "speed" \in DOMAIN payload.wind

\* no current-conditions GET has returned a payload with a gap
PayloadsPopulated == current # Unbound => FullyPopulated(current)

\* the lines one call of send_email ends with, one per call
SendOutcomeLines ==
    LinesOf("Email credentials not configured. Printing summary instead:")
    \cup LinesOf("Failed to send email:")
    \cup LinesOf("Email sent successfully to")

C5_MainCompletes ==
    /\ PayloadsPopulated => (pc # "raised" /\ exc = PyNone)
    /\ PayloadsPopulated => (pc = "done" \/ ENABLED Next)
    /\ pc = "done" =>
          /\ WeatherFetched /\ NewsFetched
          /\ summary # Unbound
          /\ Cardinality(LinesOf("Sending email...")) = 1
          /\ Cardinality(SendOutcomeLines) = 1
          /\ sent \in {"True", "False"}
          /\ console[Len(console)] = Line("Morning summary process completed!")
    /\ (/\ pc = "done"
        /\ ~Truthy(config.weather_api_key) /\ ~Truthy(config.news_api_key)
        /\ ~Truthy(config.email_sender) /\ ~Truthy(config.email_password)
        /\ ~Truthy(config.email_recipient)) =>
          \E i \in DOMAIN console :
              /\ IsBody(console[i])
              /\ console[i].body.weather = [kind |-> "error", error |-> NoWeatherKeyMsg]
              /\ console[i].body.news = [kind |-> "error", error |-> NoNewsKeyMsg]

\* main is done after three successful GETs and a failed SMTP login
C5_Witness ==
    /\ pc = "done"
    /\ Len(http) = 3 /\ \A i \in DOMAIN http : http[i].ok
    /\ FullyPopulated(current)
    /\ Len(smtp) = 3 /\ ~smtp[3].ok

-----------------------------------------------------------------------------
(* C6: with sender, password and recipient all set, the SMTP steps are     *)
(* attempted in the order connect (port 587), STARTTLS, login,             *)
(* send_message, quit, each only after every earlier one succeeded; at     *)
(* most one message is sent per call.                                      *)

SmtpOrder == <<"connect", "starttls", "login", "send_message", "quit">>

C6_SmtpStepsInOrder ==
    /\ Len(smtp) <= Len(SmtpOrder)
    /\ \A i \in DOMAIN smtp :
          /\ smtp[i].step = SmtpOrder[i]
          /\ \A j \in 1..(i - 1) : smtp[j].ok
    /\ smtp # <<>> =>
          /\ smtp[1].port = SmtpPort
          /\ AllConfigured(config.email_sender, config.email_password,
                           config.email_recipient)
    /\ Cardinality({i \in DOMAIN smtp : smtp[i].step = "send_message"}) <= 1
    /\ (SendReturned /\ AllConfigured(config.email_sender, config.email_password,
                                      config.email_recipient)) => smtp # <<>>

\* all five steps were attempted and went through
C6_Witness ==
    /\ SendReturned
    /\ Len(smtp) = Len(SmtpOrder)
    /\ \A i \in DOMAIN smtp : smtp[i].ok

-----------------------------------------------------------------------------
(* C7: send_email prints the body exactly once when it returns False, for  *)
(* missing credentials and for a failure of any SMTP step, and not at all  *)
(* when it returns True, where it prints the success line naming the       *)
(* recipient; it returns True exactly when all five SMTP steps succeeded.  *)

AllStepsSucceeded ==
    Len(smtp) = Len(SmtpOrder) /\ \A i \in DOMAIN smtp : smtp[i].ok

C7_BodyPrintedIffNotSent ==
    /\ ~SendReturned => (BodyPrints = {} /\ sent = "unset")
    /\ SendReturned =>
          /\ sent \in {"True", "False"}
          /\ sent = "True" <=> AllStepsSucceeded
          /\ sent = "False" =>
                /\ Cardinality(BodyPrints) = 1
                /\ \A i \in BodyPrints : console[i] = Body(summary)
                /\ LinesOf("Email sent successfully to") = {}
          /\ sent = "True" =>
                /\ BodyPrints = {}
                /\ \E i \in DOMAIN console :
                      console[i] = LineWith("Email sent successfully to",
                                            config.email_recipient)

\* send_email has returned False after a failure of STARTTLS
C7_Witness ==
    /\ SendReturned
    /\ sent = "False"
    /\ Len(smtp) = 2 /\ ~smtp[2].ok
    /\ Cardinality(BodyPrints) = 1

-----------------------------------------------------------------------------
(* C8: with a non-empty key get_weather_data issues each of its two GETs   *)
(* at most once, the forecast GET only after the current-conditions GET    *)
(* succeeded, and returns either both payloads with error None (both GETs  *)
(* succeeded) or an error message alone (one of them failed).              *)

WeatherGets == RequestsTo("weather") \cup RequestsTo("forecast")

C8_TwoVariantResult ==
    /\ Cardinality(RequestsTo("weather")) <= 1
    /\ Cardinality(RequestsTo("forecast")) <= 1
    /\ \A i \in RequestsTo("forecast") :
          \E j \in RequestsTo("weather") : j < i /\ http[j].ok
    /\ (WeatherFetched /\ Truthy(config.weather_api_key)) =>
          IF Cardinality(WeatherGets) = 2 /\ \A i \in WeatherGets : http[i].ok
          THEN /\ DOMAIN weather_data = {"current", "forecast", "error"}
               /\ weather_data.error = PyNone
               /\ weather_data.current = current
               /\ weather_data.forecast \in ForecastPayloads
          ELSE /\ DOMAIN weather_data = {"error"}
               /\ Truthy(weather_data.error)
               /\ \E i \in WeatherGets : ~http[i].ok

\* the current-conditions GET succeeded and the forecast GET failed
C8_Witness ==
    /\ WeatherFetched
    /\ Cardinality(WeatherGets) = 2
    /\ \E i \in RequestsTo("weather") : http[i].ok
    /\ \E i \in RequestsTo("forecast") : ~http[i].ok
    /\ DOMAIN weather_data = {"error"}

-----------------------------------------------------------------------------
(* C9: for a non-error weather result whose non-empty current snapshot     *)
(* carries no wind speed and whose description contains none of rain,      *)
(* snow, fog, mist, the formatter does not fail and its advisory is the    *)
(* normal-conditions message.                                              *)

NoKeyword ==
    /\ ~Mentions(RawDescription, <<"r","a","i","n">>)
    /\ ~Mentions(RawDescription, <<"s","n","o","w">>)
    /\ ~Mentions(RawDescription, <<"f","o","g">>)
    /\ ~Mentions(RawDescription, <<"m","i","s","t">>)

C9_MissingWindIsNormal ==
    (Formatted /\ HasCurrent /\ HasWeatherEntry /\ ~IsNum(WindSpeed) /\ NoKeyword) =>
        /\ pc # "raised"
        /\ summary # Unbound
        /\ summary.weather.road = <<NormalMsg>>

-----------------------------------------------------------------------------
(* C10: whenever send_email returns False, send_message did not succeed    *)
(* during the call, a failure of quit after send_message included.         *)

C10_NotSentMeansNotHandedOver ==
    (SendReturned /\ sent = "False") =>
        ~\E i \in DOMAIN smtp : smtp[i].step = "send_message" /\ smtp[i].ok

====
